---------------------------- MODULE Spec2Model ----------------------------
(***************************************************************************)
(* A model of the terminal session of iced-term: backend::Pty              *)
(* (src/src/backend/pty.rs) and the part of the view that consumes its     *)
(* snapshots (src/src/_component.rs).                                      *)
(*                                                                         *)
(* Pty owns an alacritty_terminal Term (the screen buffer), an             *)
(* ansi::Processor (the escape-sequence parser) and the OS pseudo-terminal.*)
(* The Term and the Processor are library objects; the operators below     *)
(* that stand for their methods follow alacritty_terminal's grid, term and *)
(* vte code for the bytes of Byte, and are mapped to the line of pty.rs    *)
(* that calls them.                                                        *)
(*                                                                         *)
(* Lines of the buffer are kept oldest first: the first HistorySize lines  *)
(* are the scrollback, the last `rows` lines are the active screen.        *)
(***************************************************************************)
EXTENDS Integers, Sequences, FiniteSets, TLC

(***************************************************************************)
(* Bounds of the model.                                                    *)
(***************************************************************************)
\* Largest number of rows and of columns a session is created or resized to.
MaxDim == 2
\* Scrollback limit: stands for Config::default().scrolling_history.
MaxHistory == 2
\* Number of update calls made on a session.
MaxUpdates == 3
\* Largest magnitude of an ordinary scroll delta.
MaxDelta == 1
\* Number of bytes the PTY write handle accepts before the model stops writing.
MaxSent == 1
\* Number of DataUpdated messages that wait to be handled.
MaxInbox == 1
\* Number of update calls in the statement-level specification.
MaxStepUpdates == 2
\* Number of sessions an application holds.
MaxSessions == 2
\* Number of messages that wait for the application.
MaxMailbox == 1

(***************************************************************************)
(* Machine integers.                                                       *)
(***************************************************************************)
I32Max == 2147483647
I32Min == -2147483647 - 1
U16Max == 65535
U8Mod == 256

Min(a, b) == IF a < b THEN a ELSE b
Max(a, b) == IF a > b THEN a ELSE b
\* The element of a one-element set; {F(x) : x \in {e}} computes e once.
Only(S) == CHOOSE x \in S : TRUE

\* usize::saturating_sub
SatSub(a, b) == IF a > b THEN a - b ELSE 0

(***************************************************************************)
(* Bytes of the child's output, by ASCII code, and the byte sequences the  *)
(* model hands to update: nothing, a printable character, a line feed, the *)
(* attribute sequences ESC [ 7 m (inverse) and ESC [ m (reset), and the    *)
(* pieces a read boundary inside such a sequence leaves: ESC [ without its *)
(* end, and 7 m and m, which end it (and are printed when none is open).   *)
(***************************************************************************)
Byte == [LF |-> 10, CR |-> 13, ESC |-> 27, SPACE |-> 32, SEVEN |-> 55,
         LBRACKET |-> 91, M |-> 109, X |-> 120]
Chunks == { <<>>,
            <<Byte.SEVEN>>,
            <<Byte.LF>>,
            <<Byte.ESC, Byte.LBRACKET, Byte.SEVEN, Byte.M>>,
            <<Byte.ESC, Byte.LBRACKET, Byte.M>>,
            <<Byte.ESC, Byte.LBRACKET>>,
            <<Byte.SEVEN, Byte.M>>,
            <<Byte.M>> }

(***************************************************************************)
(* Cells and rows (alacritty_terminal::term::cell::Cell, grid::Row).       *)
(***************************************************************************)
\* Cell::default(): a space with the named default colours and no flags.
BlankCell == [c |-> Byte.SPACE, fg |-> "Foreground", bg |-> "Background",
              inverse |-> FALSE, wrapline |-> FALSE]
BlankRow(n) == [i \in 1..n |-> BlankCell]
BlankRows(k, n) == [i \in 1..k |-> BlankRow(n)]

\* Cell::is_empty
CellIsEmpty(cell) ==
    /\ cell.c = Byte.SPACE
    /\ cell.bg = "Background"
    /\ cell.fg = "Foreground"
    /\ ~cell.inverse
    /\ ~cell.wrapline

\* Row::is_clear
RowIsClear(row) == \A i \in 1..Len(row) : CellIsEmpty(row[i])

\* Row::grow: pad a row with default cells up to n columns.
RowGrow(row, n) == IF Len(row) < n THEN row \o BlankRow(n - Len(row)) ELSE row

SetWrap(row, flag) ==
    IF Len(row) = 0 THEN row
    ELSE [row EXCEPT ![Len(row)] = [@ EXCEPT !.wrapline = flag]]

(***************************************************************************)
(* The screen buffer (alacritty_terminal::Term and its Grid).              *)
(***************************************************************************)
\* Grid::history_size
HistorySize(t) == SatSub(Len(t.buf), t.rows)

\* Index in buf of grid line `line` (0 is the top of the active screen,
\* negative lines are scrollback).
LineIndex(t, line) == HistorySize(t) + line + 1

\* The stored cell at grid line `line`, column col.  A line outside the
\* buffer's length is one of the ring buffer's spare rows, which are cleared.
StoredCell(t, line, col) ==
    IF LineIndex(t, line) \in 1..Len(t.buf)
    THEN t.buf[LineIndex(t, line)][col + 1]
    ELSE BlankCell

\* Term::new over a TermSize of cols x rows.
NewTerm(rows, cols) ==
    [rows |-> rows, cols |-> cols,
     buf |-> BlankRows(rows, cols),
     display_offset |-> 0,
     cursor |-> [line |-> 0, col |-> 0, input_needs_wrap |-> FALSE, inverse |-> FALSE]]

\* Grid::scroll_up over the whole screen: the display offset follows the
\* content when the view is not at the bottom, the scrollback grows up to
\* its limit (the oldest line is dropped beyond it) and cleared lines
\* come in at the bottom.
GridScrollUp(t, positions) ==
    LET off   == IF t.display_offset # 0
                 THEN Min(t.display_offset + positions, MaxHistory)
                 ELSE 0
        count == Min(positions, SatSub(MaxHistory, HistorySize(t)))
        grown == BlankRows(count, t.cols) \o t.buf
    IN  [t EXCEPT !.display_offset = off,
                  !.buf = SubSeq(grown, positions + 1, Len(grown))
                              \o BlankRows(positions, t.cols)]

\* Term::linefeed
Linefeed(t) ==
    LET next == t.cursor.line + 1
    IN  IF next = t.rows THEN GridScrollUp(t, 1)
        ELSE IF next < t.rows THEN [t EXCEPT !.cursor.line = next]
        ELSE t

\* Term::carriage_return
CarriageReturn(t) == [t EXCEPT !.cursor.col = 0, !.cursor.input_needs_wrap = FALSE]

\* Term::wrapline
Wrapline(t) ==
    LET idx    == LineIndex(t, t.cursor.line)
        marked == [t EXCEPT !.buf[idx][t.cursor.col + 1].wrapline = TRUE]
        moved  == IF marked.cursor.line + 1 >= marked.rows
                  THEN Linefeed(marked)
                  ELSE [marked EXCEPT !.cursor.line = @ + 1]
    IN  [moved EXCEPT !.cursor.col = 0, !.cursor.input_needs_wrap = FALSE]

\* Term::write_at_cursor: the cell takes the character and the cursor
\* template's colours and flags.
WriteAtCursor(t, ch) ==
    LET idx == LineIndex(t, t.cursor.line)
    IN  [t EXCEPT !.buf[idx][t.cursor.col + 1] =
            [c |-> ch, fg |-> "Foreground", bg |-> "Background",
             inverse |-> t.cursor.inverse, wrapline |-> FALSE]]

\* An input that moves to the next line as soon as the last column is written.
InputWrapsAtOnce(t, ch) ==
    LET written == WriteAtCursor(t, ch)
    IN  IF written.cursor.col + 1 < written.cols
        THEN [written EXCEPT !.cursor.col = @ + 1]
        ELSE Wrapline(written)

\* Term::input of a single-width character.
Input(t, ch) ==
    LET wrapped == IF t.cursor.input_needs_wrap THEN Wrapline(t) ELSE t
        written == WriteAtCursor(wrapped, ch)
    IN  IF written.cursor.col + 1 < written.cols
        THEN [written EXCEPT !.cursor.col = @ + 1]
        ELSE [written EXCEPT !.cursor.input_needs_wrap = TRUE]

\* Term::terminal_attribute for Attr::Reverse and Attr::Reset.
SetReverse(t) == [t EXCEPT !.cursor.inverse = TRUE]
ResetAttrs(t) == [t EXCEPT !.cursor.inverse = FALSE]

(***************************************************************************)
(* The escape-sequence processor (vte::ansi::Processor).                   *)
(* The state persists in Pty.parser between update calls.  The parameter   *)
(* is kept at 0 outside CsiParam: the library clears it when the next      *)
(* sequence starts, and nothing reads it in between.  ESC 7 (save cursor)  *)
(* is dispatched and otherwise left out: the saved cursor is only read by  *)
(* ESC 8, which Byte does not hold.                                        *)
(***************************************************************************)
NewParser == [state |-> "Ground", param |-> 0]

\* vte's parameter accumulation: saturating_mul(10).saturating_add(digit) on u16.
ParamDigit(param, digit) == Min(Min(param * 10, U16Max) + digit, U16Max)

\* C0 controls are executed in every parser state.
Execute(t, b) ==
    IF b = Byte.LF THEN Linefeed(t)
    ELSE IF b = Byte.CR THEN CarriageReturn(t)
    ELSE t

\* CSI ... m: attrs_from_sgr_parameters, then Term::terminal_attribute.
Sgr(t, param) ==
    IF param = 0 THEN ResetAttrs(t)
    ELSE IF param = 7 THEN SetReverse(t)
    ELSE t

\* CSI dispatch of a final byte with the one parameter collected.
CsiDispatch(t, param, final) == IF final = Byte.M THEN Sgr(t, param) ELSE t

\* ansi::Processor::advance for one byte: s is [term, parser].
Advance(s, b) ==
    LET t == s.term
        p == s.parser
    IN  IF b = Byte.ESC THEN [term |-> t, parser |-> [state |-> "Escape", param |-> 0]]
        ELSE IF b \in {Byte.LF, Byte.CR} THEN [term |-> Execute(t, b), parser |-> p]
        ELSE CASE p.state = "Ground" ->
                    [term |-> Input(t, b), parser |-> p]
               [] p.state = "Escape" ->
                    IF b = Byte.LBRACKET
                    THEN [term |-> t, parser |-> [state |-> "CsiEntry", param |-> 0]]
                    ELSE [term |-> t, parser |-> NewParser]
               [] p.state = "CsiEntry" ->
                    IF b = Byte.SEVEN
                    THEN [term |-> t,
                          parser |-> [state |-> "CsiParam", param |-> ParamDigit(0, 7)]]
                    ELSE [term |-> CsiDispatch(t, 0, b), parser |-> NewParser]
               [] p.state = "CsiParam" ->
                    IF b = Byte.SEVEN
                    THEN [term |-> t,
                          parser |-> [state |-> "CsiParam", param |-> ParamDigit(p.param, 7)]]
                    ELSE [term |-> CsiDispatch(t, p.param, b), parser |-> NewParser]

\* data.iter().for_each(|item| self.parser.advance(&mut self.term, *item))
RECURSIVE AdvanceAll(_, _)
AdvanceAll(s, data) ==
    IF data = <<>> THEN s
    ELSE AdvanceAll(Advance(s, Head(data)), Tail(data))

(***************************************************************************)
(* Extraction: Pty::cells over Term::renderable_content().display_iter.    *)
(***************************************************************************)

\* An extraction that copies the stored colours as they are.
RenderableNoSwap(t, line, col) ==
    LET cell == StoredCell(t, line, col)
    IN  [column |-> col, line |-> line, content |-> cell.c,
         display_offset |-> t.display_offset, fg |-> cell.fg, bg |-> cell.bg]

\* One RenderableCell: fg and bg are swapped in the copy when INVERSE is set.
Renderable(t, line, col) ==
    LET cell == StoredCell(t, line, col)
    IN  [column |-> col, line |-> line, content |-> cell.c,
         display_offset |-> t.display_offset,
         fg |-> IF cell.inverse THEN cell.bg ELSE cell.fg,
         bg |-> IF cell.inverse THEN cell.fg ELSE cell.bg]

\* An extraction that walks the active screen whatever the display offset.
CellsOfActiveScreen(t) ==
    [k \in 1..(t.rows * t.cols) |->
        Renderable(t, (k - 1) \div t.cols, (k - 1) % t.cols)]

\* display_iter walks rows lines starting display_offset lines above the
\* active screen, each from column 0 to the last column.
Cells(t) ==
    [k \in 1..(t.rows * t.cols) |->
        Renderable(t, ((k - 1) \div t.cols) - t.display_offset, (k - 1) % t.cols)]

(***************************************************************************)
(* Scrolling the view: Term::scroll_display.                               *)
(***************************************************************************)
\* (display_offset as i32) + count leaves the i32 range.
ScrollOverflows(t, delta) == delta > 0 /\ t.display_offset > I32Max - delta

\* A scroll that also takes the cursor back to the first column.
ScrollDeltaHomesCursor(t, delta) ==
    LET sum == IF delta > 0 /\ t.display_offset > I32Max - delta
               THEN I32Min + ((t.display_offset - 1) - (I32Max - delta))
               ELSE t.display_offset + delta
    IN  [t EXCEPT !.display_offset = Min(Max(sum, 0), HistorySize(t)),
                  !.cursor.col = 0,
                  !.cursor.input_needs_wrap = FALSE]

\* A scroll that forgets the upper clamp.
ScrollDeltaNoClamp(t, delta) ==
    LET sum == IF delta > 0 /\ t.display_offset > I32Max - delta
               THEN I32Min + ((t.display_offset - 1) - (I32Max - delta))
               ELSE t.display_offset + delta
    IN  [t EXCEPT !.display_offset = Max(sum, 0)]

\* Scroll::Delta(count): min(max(display_offset as i32 + count, 0), history_size),
\* with the sum wrapped to i32 when it overflows.
ScrollDelta(t, delta) ==
    LET sum == IF ScrollOverflows(t, delta)
               THEN I32Min + ((t.display_offset - 1) - (I32Max - delta))
               ELSE t.display_offset + delta
    IN  [t EXCEPT !.display_offset = Min(Max(sum, 0), HistorySize(t))]

\* Scroll::Bottom
ScrollBottom(t) == [t EXCEPT !.display_offset = 0]

(***************************************************************************)
(* Resizing the screen buffer: Term::resize, which resizes the primary     *)
(* grid with reflow (Grid::resize(true, lines, columns)): lines first,     *)
(* columns second.                                                         *)
(***************************************************************************)
\* Grid::grow_lines: lines are added to the screen; the scrollback fills
\* them from above as far as it goes and the cursor moves down with it,
\* the content is scrolled up for the rest.
GrowLines(t, target) ==
    LET added        == target - t.rows
        t1           == [t EXCEPT !.buf = BlankRows(added, t.cols) \o @, !.rows = target]
        from_history == Min(HistorySize(t1), added)
        t2           == IF from_history # added
                        THEN GridScrollUp(t1, added - from_history)
                        ELSE t1
        count        == Min(added, HistorySize(t2))
    IN  [t2 EXCEPT !.cursor.line = @ + from_history,
                   !.display_offset = SatSub(@, added),
                   !.buf = SubSeq(@, count + 1, Len(@))]

\* A shrink that drops the bottom lines and leaves the cursor where it was.
ShrinkLinesKeepsCursor(t, target) ==
    [t EXCEPT !.buf = SubSeq(@, 1, Len(@) - (t.rows - target)),
              !.rows = target]

\* Grid::shrink_lines: the content is scrolled up until the cursor fits,
\* then the lines below the new bottom are dropped.
ShrinkLines(t, target) ==
    LET required == SatSub(t.cursor.line + 1, target)
        t1       == IF required > 0
                    THEN [GridScrollUp(t, required) EXCEPT
                             !.cursor.line = Min(@, target - 1)]
                    ELSE t
    IN  [t1 EXCEPT !.buf = SubSeq(@, 1, Len(@) - (t.rows - target)),
                   !.rows = target]

\* Point::sub followed by grid_clamp(Boundary::Cursor), on a grid of
\* `lines` x `columns`.
PointSub(line, col, columns, lines, rhs) ==
    LET line_changes == SatSub(rhs + columns - 1, col) \div columns
        l            == line - line_changes
        c            == Min((columns + col - (rhs % columns)) % columns, columns - 1)
    IN  IF l < 0 THEN [line |-> 0, col |-> 0]
        ELSE IF l > lines - 1 THEN [line |-> lines - 1, col |-> columns - 1]
        ELSE [line |-> l, col |-> c]

\* The linewrap special case is removed before a reflow: a cursor waiting
\* to wrap is moved one column outside the line.
UnwrapCursor(cur) ==
    IF cur.input_needs_wrap
    THEN [cur EXCEPT !.input_needs_wrap = FALSE, !.col = @ + 1]
    ELSE cur

\* grow_columns' should_reflow: a short row whose last cell is marked WRAPLINE.
ShouldReflow(row, columns) ==
    Len(row) > 0 /\ Len(row) < columns /\ row[Len(row)].wrapline

\* One round of grow_columns' loop: `row` is the row at buffer index i
\* (0 is the bottom line); acc.rev holds the rows rebuilt so far, oldest first.
GrowStep(acc, row, i, columns, lines) ==
    IF acc.rev = <<>> \/ ~ShouldReflow(acc.rev[Len(acc.rev)], columns)
    THEN [acc EXCEPT !.rev = Append(@, row)]
    ELSE
      LET n           == Len(acc.rev)
          last0       == SetWrap(acc.rev[n], FALSE)
          num_wrapped == columns - Len(last0)
          len         == Min(Len(row), num_wrapped)
          rest        == SubSeq(row, len + 1, Len(row))
          last1       == last0 \o SubSeq(row, 1, len)
          merged      == [acc.rev EXCEPT ![n] = last1]
          kept        == Append([acc.rev EXCEPT ![n] = SetWrap(last1, TRUE)], rest)
          cbl         == lines - acc.cur.line - 1
      IN  IF i = cbl
          THEN LET t0        == PointSub(acc.cur.line, acc.cur.col, columns, lines, num_wrapped)
                   clampLast == t0.col = 0 /\ RowIsClear(rest)
                   target    == IF clampLast
                                THEN PointSub(t0.line, t0.col, columns, lines, 1)
                                ELSE t0
                   cur1      == [acc.cur EXCEPT
                                    !.col = target.col,
                                    !.input_needs_wrap = IF clampLast THEN TRUE ELSE @]
                   line_delta == acc.cur.line - target.line
               IN  IF line_delta # 0 /\ RowIsClear(rest)
                   THEN [acc EXCEPT !.rev = merged, !.cur = cur1]
                   ELSE [acc EXCEPT !.rev = kept, !.cur = cur1, !.cld = @ + line_delta]
          ELSE IF RowIsClear(rest)
          THEN [acc EXCEPT !.rev = merged,
                           !.off = IF i < @ THEN SatSub(@, 1) ELSE @,
                           !.cur.line = IF i < cbl THEN @ + 1 ELSE @]
          ELSE [acc EXCEPT !.rev = kept]

RECURSIVE GrowLoop(_, _, _, _, _)
GrowLoop(acc, rows, k, columns, lines) ==
    IF k > Len(rows) THEN acc
    ELSE Only({GrowLoop(a, rows, k + 1, columns, lines) :
                  a \in {GrowStep(acc, rows[k], Len(rows) - k, columns, lines)}})

\* Grid::grow_columns with reflow: wrapped lines are pulled back onto the
\* line above, emptied lines disappear, the viewport is refilled and the
\* display offset is clamped to the new scrollback.
GrowColumns(t, columns) ==
    Only({
      LET lines == t.rows
          short == SatSub(lines, Len(acc.rev))
          rev1  == acc.rev \o BlankRows(short, columns)
          line1 == IF short > 0 THEN Max(acc.cur.line - short, 0) ELSE acc.cur.line
          cbl       == lines - line1 - 1
          available == Min(cbl, Len(rev1) - lines)
          overflow  == SatSub(acc.cld, available)
          rev2  == IF acc.cld # 0
                   THEN SubSeq(rev1, 1, Len(rev1) + overflow - acc.cld)
                   ELSE rev1
          line2 == IF acc.cld # 0 THEN Max(line1 - overflow, 0) ELSE line1
          buf   == [k \in 1..Len(rev2) |-> RowGrow(rev2[k], columns)]
      IN  [t EXCEPT !.cols = columns,
                    !.buf = buf,
                    !.cursor = [acc.cur EXCEPT !.line = line2],
                    !.display_offset = Min(acc.off, SatSub(Len(buf), lines))] :
      acc \in {GrowLoop([rev |-> <<>>, cld |-> 0, cur |-> UnwrapCursor(t.cursor),
                         off |-> t.display_offset],
                        t.buf, 1, columns, t.rows)}})

\* Row::shrink's second half: the cells cut off a row, without its
\* trailing empty cells.
RECURSIVE TrimEmpty(_)
TrimEmpty(cells) ==
    IF cells = <<>> THEN cells
    ELSE IF CellIsEmpty(cells[Len(cells)]) THEN TrimEmpty(SubSeq(cells, 1, Len(cells) - 1))
    ELSE cells

\* shrink_columns' inner loop on the row at buffer index i: the row is cut
\* to the new width and what was cut becomes a new line below it (or is
\* kept in acc.buffered to be put in front of the next row when the row
\* was itself wrapped), until what is left fits.
RECURSIVE ShrinkLoop(_, _, _, _, _)
ShrinkLoop(acc, row, i, columns, lines) ==
    LET cbl     == lines - acc.cur.line - 1
        cut     == Len(row) > columns
        head    == IF cut THEN SubSeq(row, 1, columns) ELSE row
        wrapped == IF cut THEN TrimEmpty(SubSeq(row, columns + 1, Len(row))) ELSE <<>>
    IN  IF wrapped = <<>> /\ ~(i = cbl /\ acc.cur.col > columns)
        THEN [acc EXCEPT !.raw = Append(@, head)]
        ELSE
          LET pushed == Append(acc.raw, SetWrap(head, TRUE))
          IN  IF /\ wrapped # <<>>
                 /\ wrapped[Len(wrapped)].wrapline
                 /\ i >= 1
                 /\ Len(wrapped) < columns
              THEN [acc EXCEPT !.raw = pushed, !.buffered = SetWrap(wrapped, FALSE)]
              ELSE
                LET line1 == IF (i = cbl /\ acc.cur.col < columns) \/ i < cbl
                             THEN Max(acc.cur.line - 1, 0)
                             ELSE acc.cur.line
                    col1  == IF i = cbl /\ acc.cur.col >= columns
                             THEN acc.cur.col - columns
                             ELSE acc.cur.col
                    off1  == IF i < acc.off THEN Min(acc.off + 1, MaxHistory) ELSE acc.off
                IN  Only({ShrinkLoop(a, r, i, columns, lines) :
                              a \in {[acc EXCEPT !.raw = pushed,
                                                 !.cur = [@ EXCEPT !.line = line1, !.col = col1],
                                                 !.off = off1]},
                              r \in {RowGrow(wrapped, columns)}})

\* One round of shrink_columns' outer loop: cells left over from the row
\* above are put in front of this row first.
ShrinkStep(acc, row, i, columns, lines) ==
    LET cbl  == lines - acc.cur.line - 1
        cur1 == IF acc.buffered # <<>> /\ i = cbl
                THEN [acc.cur EXCEPT !.col = @ + Len(acc.buffered)]
                ELSE acc.cur
    IN  Only({ShrinkLoop(a, r, i, columns, lines) :
                  a \in {[acc EXCEPT !.buffered = <<>>, !.cur = cur1]},
                  r \in {acc.buffered \o row}})

RECURSIVE ShrinkOuter(_, _, _, _, _)
ShrinkOuter(acc, rows, k, columns, lines) ==
    IF k > Len(rows) THEN acc
    ELSE Only({ShrinkOuter(a, rows, k + 1, columns, lines) :
                  a \in {ShrinkStep(acc, rows[k], Len(rows) - k, columns, lines)}})

\* Grid::shrink_columns with reflow: the new lines count as scrollback once
\* they leave the screen, the buffer is truncated to the scrollback limit,
\* and the cursor is reflown or clamped.
ShrinkColumns(t, columns) ==
    Only({
      LET lines == t.rows
          extra == SatSub(Len(acc.raw), MaxHistory + lines)
          buf   == SubSeq(acc.raw, extra + 1, Len(acc.raw))
          t1    == [t EXCEPT !.cols = columns, !.buf = buf,
                             !.display_offset = acc.off, !.cursor = acc.cur]
          cur   == acc.cur
      IN  IF cur.col = columns /\ ~StoredCell(t1, cur.line, columns - 1).wrapline
          THEN [t1 EXCEPT !.cursor.input_needs_wrap = TRUE, !.cursor.col = columns - 1]
          ELSE LET c == Min(cur.col, columns - 1)
               IN  IF cur.line < 0
                   THEN [t1 EXCEPT !.cursor.line = 0, !.cursor.col = 0]
                   ELSE IF cur.line > lines - 1
                   THEN [t1 EXCEPT !.cursor.line = lines - 1, !.cursor.col = columns - 1]
                   ELSE [t1 EXCEPT !.cursor.col = c] :
      acc \in {ShrinkOuter([raw |-> <<>>, buffered |-> <<>>,
                            cur |-> UnwrapCursor(t.cursor), off |-> t.display_offset],
                           t.buf, 1, columns, t.rows)}})

\* Term::resize(TermSize::new(num_cols, num_lines)).
TermResize(t, num_cols, num_lines) ==
    IF t.cols = num_cols /\ t.rows = num_lines THEN t
    ELSE Only({IF t1.cols < num_cols THEN GrowColumns(t1, num_cols)
               ELSE IF t1.cols > num_cols THEN ShrinkColumns(t1, num_cols)
               ELSE t1 :
                  t1 \in {IF t.rows < num_lines THEN GrowLines(t, num_lines)
                          ELSE IF t.rows > num_lines THEN ShrinkLines(t, num_lines)
                          ELSE t}})

(***************************************************************************)
(* The session: struct Pty.                                                *)
(*   term    the screen buffer (Pty.term)                                  *)
(*   parser  the escape-sequence processor's state (Pty.parser)            *)
(*   pty     the OS pseudo-terminal (Pty.pty): the window size it was last *)
(*           told, and the bytes written to it, each with the display      *)
(*           offset the session had when write_all was called              *)
(*   status  "running", or "panicked" once a call has panicked             *)
(*   lastOp  the last call made on the session and its arguments           *)
(*   ret     the snapshot the last call returned (<<>> when it returned    *)
(*           none)                                                         *)
(*   fed     the number of update calls made so far                        *)
(*   inflight  the update or resize call under way, statement by statement *)
(*           (Idle in Spec, where every call is one step)                  *)
(*   inbox   the Message::DataUpdated payloads read by the subscription    *)
(*           and not yet handed to update                                  *)
(*   view    for each session slot, whether iterm has made the session and *)
(*           the id it was made with (ITermView.id, Pty._id)               *)
(*   handle  for each session, the read side of its PTY: open or at        *)
(*           end-of-stream, and the bytes written by the child and not yet *)
(*           read                                                          *)
(*   sub     for each session, its on_data_received subscription: where    *)
(*           the task stands, the message it is about to yield, and the    *)
(*           number of sleeps since its last read attempt                  *)
(*   mailbox the messages yielded and not yet taken by the application     *)
(***************************************************************************)
VARIABLES term, parser, pty, status, lastOp, ret, fed, inflight, inbox,
          view, handle, sub, mailbox

vars == <<term, parser, pty, status, lastOp, ret, fed, inflight, inbox,
          view, handle, sub, mailbox>>

\* The view-level state: the sessions made by iterm, their read handles,
\* their subscriptions and the messages on their way to the application.
polling == <<view, handle, sub, mailbox>>

\* The sessions an application may hold, and the ids it may give them.
Sessions == 1..MaxSessions
SessionIds == 1..MaxSessions

\* A subscription that has not produced a message.
NoMessage == [kind |-> "none"]

\* The statement-level view of the calls: the &mut self call that is under
\* way, and the DataUpdated messages read but not yet handled.
steps == <<inflight, inbox>>

\* No call holds the session.
Idle == [op |-> "none"]

\* from_offset is the display offset a write_to_pty call found.
Op(name) == [op |-> name, rows |-> 0, cols |-> 0, delta |-> 0, c |-> 0, from_offset |-> 0]

\* Sizes a resize request may carry, 0 included.
Dims == 0..MaxDim
\* Scroll deltas: the small ones and the two ends of i32.
Deltas == (-MaxDelta..MaxDelta) \cup {I32Min, I32Max}
\* Characters typed: one that fits a byte and one that does not (U+0178).
InputChars == {Byte.X, Byte.X + U8Mod}

\* Pty::new: the pseudo-terminal is opened with settings.rows x settings.cols
\* and the Term is built over the same size.
PtyNew(rows, cols) ==
    [term |-> NewTerm(rows, cols),
     parser |-> NewParser,
     pty |-> [rows |-> rows, cols |-> cols, sent |-> <<>>]]

Init ==
    \E rows \in 1..MaxDim, cols \in 1..MaxDim :
        /\ term = PtyNew(rows, cols).term
        /\ parser = PtyNew(rows, cols).parser
        /\ pty = PtyNew(rows, cols).pty
        /\ status = "running"
        /\ lastOp = Op("new")
        /\ ret = <<>>
        /\ fed = 0
        /\ inflight = Idle
        /\ inbox = <<>>
        /\ view = [p \in Sessions |-> [live |-> FALSE, id |-> 0]]
        /\ handle = [p \in Sessions |-> [state |-> "none", data |-> <<>>]]
        /\ sub = [p \in Sessions |-> [pc |-> "none", msg |-> NoMessage, naps |-> 0]]
        /\ mailbox = <<>>

\* An update that builds its processor afresh on every call.
UpdateFreshParser(s, data) == AdvanceAll([s EXCEPT !.parser = NewParser], data)

\* Pty::update up to its return: every byte through the processor, in order.
UpdateFn(s, data) == AdvanceAll(s, data)

Update(data) ==
    /\ status = "running"
    /\ fed < MaxUpdates
    /\ \E s \in {UpdateFn([term |-> term, parser |-> parser], data)} :
           /\ term' = s.term
           /\ parser' = s.parser
           /\ ret' = Cells(s.term)
    /\ fed' = fed + 1
    /\ lastOp' = Op("update")
    /\ UNCHANGED <<pty, status, steps, polling>>

\* The guard of Pty::resize.
ResizeAccepted(rows, cols) == rows > 0 /\ cols > 0

\* A resize that tells the pseudo-terminal before looking at the request.
ResizeNotifyFirst(s, rows, cols) ==
    [term |-> IF ResizeAccepted(rows, cols) THEN TermResize(s.term, cols, rows) ELSE s.term,
     pty |-> [s.pty EXCEPT !.rows = rows, !.cols = cols]]

\* A resize that hands the Term its size with rows and columns exchanged.
ResizeSwapped(s, rows, cols) ==
    IF ResizeAccepted(rows, cols)
    THEN [term |-> TermResize(s.term, rows, cols),
          pty |-> [s.pty EXCEPT !.rows = rows, !.cols = cols]]
    ELSE s

\* Pty::resize up to its return: s is [term, pty].
ResizeFn(s, rows, cols) ==
    IF ResizeAccepted(rows, cols)
    THEN [term |-> TermResize(s.term, cols, rows),
          pty |-> [s.pty EXCEPT !.rows = rows, !.cols = cols]]
    ELSE s

Resize(rows, cols) ==
    /\ status = "running"
    /\ \E s \in {ResizeFn([term |-> term, pty |-> pty], rows, cols)} :
           /\ term' = s.term
           /\ pty' = s.pty
           /\ ret' = Cells(s.term)
    /\ lastOp' = [Op("resize") EXCEPT !.rows = rows, !.cols = cols]
    /\ UNCHANGED <<parser, status, fed, steps, polling>>

\* Pty::scroll.  When display_offset + delta overflows i32 the library's
\* addition panics in a build with overflow checks and wraps in one without.
Scroll(delta) ==
    /\ status = "running"
    /\ lastOp' = [Op("scroll") EXCEPT !.delta = delta]
    /\ \/ /\ term' = ScrollDelta(term, delta)
          /\ ret' = Cells(term')
          /\ UNCHANGED status
       \/ /\ ScrollOverflows(term, delta)
          /\ status' = "panicked"
          /\ ret' = <<>>
          /\ UNCHANGED term
    /\ UNCHANGED <<parser, pty, fed, steps, polling>>

\* A write_to_pty that also echoes the character on the screen.
WriteEchoes(s, c) ==
    [term |-> Input(ScrollBottom(s.term), c % U8Mod),
     pty |-> [s.pty EXCEPT !.sent =
                 Append(@, [byte |-> c % U8Mod, display_offset |-> 0])]]

\* A write_to_pty that sends the byte first and scrolls afterwards.
WriteBeforeScroll(s, c) ==
    [term |-> ScrollBottom(s.term),
     pty |-> [s.pty EXCEPT !.sent =
                 Append(@, [byte |-> c % U8Mod,
                            display_offset |-> s.term.display_offset])]]

\* The two statements of Pty::write_to_pty: the view is scrolled to the
\* bottom, then c as u8 is handed to write_all: s is [term, pty].
WriteToPtyFn(s, c) ==
    LET scrolled == ScrollBottom(s.term)
    IN  [term |-> scrolled,
         pty |-> [s.pty EXCEPT !.sent =
                     Append(@, [byte |-> c % U8Mod,
                                display_offset |-> scrolled.display_offset])]]

\* Pty::write_to_pty: write_all either takes the byte or fails, and the
\* unwrap of a failure panics.
WriteToPty(c) ==
    /\ status = "running"
    /\ Len(pty.sent) < MaxSent
    /\ lastOp' = [Op("write_to_pty") EXCEPT !.c = c, !.from_offset = term.display_offset]
    /\ ret' = <<>>
    /\ \/ /\ \E s \in {WriteToPtyFn([term |-> term, pty |-> pty], c)} :
                 /\ term' = s.term
                 /\ pty' = s.pty
          /\ UNCHANGED status
       \/ /\ term' = ScrollBottom(term)
          /\ status' = "panicked"
          /\ UNCHANGED pty
    /\ UNCHANGED <<parser, fed, steps, polling>>

\* An extraction that moves the view back to the bottom.
CellsScrolls(s) == [s EXCEPT !.term = ScrollBottom(@)]

\* Pty::cells called on its own (&self): what it leaves behind in the session.
CellsFn(s) == s

CellsCall ==
    /\ status = "running"
    /\ \E s \in {CellsFn([term |-> term, parser |-> parser, pty |-> pty])} :
           /\ term' = s.term
           /\ parser' = s.parser
           /\ pty' = s.pty
           /\ ret' = Cells(s.term)
    /\ lastOp' = Op("cells")
    /\ UNCHANGED <<status, fed, steps, polling>>

Next ==
    \/ \E data \in Chunks : Update(data)
    \/ \E rows \in Dims, cols \in Dims : Resize(rows, cols)
    \/ \E delta \in Deltas : Scroll(delta)
    \/ \E c \in InputChars : WriteToPty(c)
    \/ CellsCall

Spec == Init /\ [][Next]_vars

(***************************************************************************)
(* The same calls statement by statement, with the polling subscription    *)
(* running beside them.  update and resize take &mut self, cells takes     *)
(* &self: a shared borrow exists only while no exclusive one is live.      *)
(***************************************************************************)
\* A borrow checker that lets &self in whatever else is live.
BorrowAlways(f) == TRUE

\* Whether cells(&self) can be entered while call f is under way.
SharedBorrow(f) == f.op = "none"

\* Whether a &mut self method can be entered while call f is under way.
ExclusiveBorrow(f) == f.op = "none"

\* ITermView::on_data_received: the subscription reads the bytes the child
\* wrote and posts them as Message::DataUpdated.  It holds the read handle
\* only, so it runs whatever the session is doing.
PollRead(data) ==
    /\ status = "running"
    /\ Len(inbox) < MaxInbox
    /\ fed + Len(inbox) < MaxStepUpdates
    /\ inbox' = Append(inbox, data)
    /\ UNCHANGED <<term, parser, pty, status, lastOp, ret, fed, inflight, polling>>

\* update(data) is entered with the oldest message.  before and after are
\* the session at the two ends of the call.
UpdateBegin ==
    /\ status = "running"
    /\ ExclusiveBorrow(inflight)
    /\ inbox # <<>>
    /\ inflight' = [op |-> "update", rest |-> Head(inbox),
                    before |-> term,
                    after |-> UpdateFn([term |-> term, parser |-> parser], Head(inbox)).term]
    /\ inbox' = Tail(inbox)
    /\ fed' = fed + 1
    /\ UNCHANGED <<term, parser, pty, status, lastOp, ret, polling>>

\* One turn of data.iter().for_each: parser.advance(&mut term, *item).
UpdateByte ==
    /\ inflight.op = "update"
    /\ inflight.rest # <<>>
    /\ \E s \in {Advance([term |-> term, parser |-> parser], Head(inflight.rest))} :
           /\ term' = s.term
           /\ parser' = s.parser
    /\ inflight' = [inflight EXCEPT !.rest = Tail(@)]
    /\ UNCHANGED <<pty, status, lastOp, ret, fed, inbox, polling>>

\* The self.cells() that ends update, and the return.
UpdateEnd ==
    /\ inflight.op = "update"
    /\ inflight.rest = <<>>
    /\ ret' = Cells(term)
    /\ lastOp' = Op("update")
    /\ inflight' = Idle
    /\ UNCHANGED <<term, parser, pty, status, fed, inbox, polling>>

\* resize(rows, cols, ..) is entered; a rejected request goes straight to
\* self.cells().
ResizeBegin(rows, cols) ==
    /\ status = "running"
    /\ ExclusiveBorrow(inflight)
    /\ inflight' = [op |-> "resize", rows |-> rows, cols |-> cols,
                    stage |-> IF ResizeAccepted(rows, cols) THEN "on_resize" ELSE "cells",
                    before |-> term,
                    after |-> ResizeFn([term |-> term, pty |-> pty], rows, cols).term]
    /\ UNCHANGED <<term, parser, pty, status, lastOp, ret, fed, inbox, polling>>

\* self.pty.on_resize(size)
ResizeNotify ==
    /\ inflight.op = "resize"
    /\ inflight.stage = "on_resize"
    /\ pty' = [pty EXCEPT !.rows = inflight.rows, !.cols = inflight.cols]
    /\ inflight' = [inflight EXCEPT !.stage = "lines"]
    /\ UNCHANGED <<term, parser, status, lastOp, ret, fed, inbox, polling>>

\* self.term.resize(..), first half: the number of lines.
ResizeLines ==
    /\ inflight.op = "resize"
    /\ inflight.stage = "lines"
    /\ term' = TermResize(term, term.cols, inflight.rows)
    /\ inflight' = [inflight EXCEPT !.stage = "columns"]
    /\ UNCHANGED <<parser, pty, status, lastOp, ret, fed, inbox, polling>>

\* self.term.resize(..), second half: the number of columns.
ResizeColumns ==
    /\ inflight.op = "resize"
    /\ inflight.stage = "columns"
    /\ term' = TermResize(term, inflight.cols, term.rows)
    /\ inflight' = [inflight EXCEPT !.stage = "cells"]
    /\ UNCHANGED <<parser, pty, status, lastOp, ret, fed, inbox, polling>>

\* The self.cells() that ends resize, and the return.
ResizeEnd ==
    /\ inflight.op = "resize"
    /\ inflight.stage = "cells"
    /\ ret' = Cells(term)
    /\ lastOp' = [Op("resize") EXCEPT !.rows = inflight.rows, !.cols = inflight.cols]
    /\ inflight' = Idle
    /\ UNCHANGED <<term, parser, pty, status, fed, inbox, polling>>

\* cells() called from outside the session's own methods.
Extract ==
    /\ status = "running"
    /\ SharedBorrow(inflight)
    /\ ret' = Cells(term)
    /\ lastOp' = Op("cells")
    /\ UNCHANGED <<term, parser, pty, status, fed, inflight, inbox, polling>>

NextSteps ==
    \/ \E data \in Chunks : PollRead(data)
    \/ UpdateBegin
    \/ UpdateByte
    \/ UpdateEnd
    \/ \E rows \in Dims, cols \in Dims : ResizeBegin(rows, cols)
    \/ ResizeNotify
    \/ ResizeLines
    \/ ResizeColumns
    \/ ResizeEnd
    \/ Extract
    \/ \E c \in InputChars : ExclusiveBorrow(inflight) /\ WriteToPty(c)
    \/ \E delta \in Deltas : ExclusiveBorrow(inflight) /\ Scroll(delta)

SpecSteps == Init /\ [][NextSteps]_vars

(***************************************************************************)
(* The view level: iterm makes a session and its view with one id, the     *)
(* application starts on_data_received(id, reader) for it, and the view    *)
(* turns keystrokes into messages.  Every message goes to the application, *)
(* which finds the session by the id in the message.                       *)
(***************************************************************************)
session == <<term, parser, pty, status, lastOp, ret, fed, inflight, inbox>>

\* A message that carries the id of the first session slot.
IdOfFirstSlot(p) == view[1].id

\* The id in the messages of session p: the closure's captured id in
\* on_data_received, self.id in the view.
MessageId(p) == view[p].id

\* iterm(id, font_size): Pty::new(id, ..) and ITermView::new(id, ..); the
\* application then starts the subscription on pty.reader().  The id is
\* whatever the caller passes.
Iterm(p, id) ==
    /\ ~view[p].live
    /\ view' = [view EXCEPT ![p] = [live |-> TRUE, id |-> id]]
    /\ handle' = [handle EXCEPT ![p] = [state |-> "open", data |-> <<>>]]
    /\ sub' = [sub EXCEPT ![p] = [pc |-> "sleep", msg |-> NoMessage, naps |-> 0]]
    /\ UNCHANGED <<session, mailbox>>

\* The child process writes to its terminal.
ChildWrites(p, data) ==
    /\ handle[p].state = "open"
    /\ handle[p].data = <<>>
    /\ handle' = [handle EXCEPT ![p].data = data]
    /\ UNCHANGED <<session, view, sub, mailbox>>

\* The child process exits: the read handle is at end-of-stream once the
\* bytes written before are read.
ChildExits(p) ==
    /\ handle[p].state = "open"
    /\ handle' = [handle EXCEPT ![p].state = "eof"]
    /\ UNCHANGED <<session, view, sub, mailbox>>

\* A closure of unfold that goes straight to the read.
SubRestartAtRead(s) == [s EXCEPT !.pc = "read", !.msg = NoMessage]

\* unfold calls the closure again: it starts at its sleep.
SubRestart(s) == [s EXCEPT !.pc = "sleep", !.msg = NoMessage]

\* sleep(Duration::from_millis(1)).await at the head of the closure.
SubSleep(p) ==
    /\ sub[p].pc = "sleep"
    /\ sub' = [sub EXCEPT ![p].pc = "read", ![p].naps = Min(@ + 1, 2)]
    /\ UNCHANGED <<session, view, handle, mailbox>>

\* Pty::read up to the outcome of file.read_buf(&mut buf): Ok with the
\* bytes there are; with none, Err on an open handle (the PTY is
\* non-blocking), and Ok(0) or Err at end-of-stream.
SubRead(p) ==
    /\ sub[p].pc = "read"
    /\ \/ /\ handle[p].data # <<>>
          /\ sub' = [sub EXCEPT ![p] =
                [pc |-> "post", naps |-> 0,
                 msg |-> [kind |-> "DataUpdated", id |-> MessageId(p),
                          data |-> handle[p].data, from |-> p]]]
          /\ handle' = [handle EXCEPT ![p].data = <<>>]
       \/ /\ handle[p].data = <<>>
          /\ handle[p].state = "eof"
          /\ sub' = [sub EXCEPT ![p] =
                [pc |-> "post", naps |-> 0,
                 msg |-> [kind |-> "DataUpdated", id |-> MessageId(p),
                          data |-> <<>>, from |-> p]]]
          /\ UNCHANGED handle
       \/ /\ handle[p].data = <<>>
          /\ sub' = [sub EXCEPT ![p].pc = "backoff", ![p].naps = 0]
          /\ UNCHANGED handle
    /\ UNCHANGED <<session, view, mailbox>>

\* Pty::read after a failed read: buf is empty, so it sleeps and returns
\* None, which the closure turns into Message::Ignored(id).
SubBackoff(p) ==
    /\ sub[p].pc = "backoff"
    /\ sub' = [sub EXCEPT ![p] =
          [pc |-> "post", naps |-> Min(sub[p].naps + 1, 2),
           msg |-> [kind |-> "Ignored", id |-> MessageId(p), data |-> <<>>, from |-> p]]]
    /\ UNCHANGED <<session, view, handle, mailbox>>

\* The closure returns (message, reader): the message is yielded to the
\* application and unfold runs the closure again.
SubPost(p) ==
    /\ sub[p].pc = "post"
    /\ Len(mailbox) < MaxMailbox
    /\ mailbox' = Append(mailbox, sub[p].msg)
    /\ sub' = [sub EXCEPT ![p] = SubRestart(@)]
    /\ UNCHANGED <<session, view, handle>>

\* canvas::Program::update of the view on a CharacterReceived event.
Keystroke(p, c) ==
    /\ view[p].live
    /\ Len(mailbox) < MaxMailbox
    /\ mailbox' = Append(mailbox, [kind |-> "CharacterReceived", id |-> MessageId(p),
                                   data |-> <<c>>, from |-> p])
    /\ UNCHANGED <<session, view, handle, sub>>

\* The application takes the oldest message.
Deliver ==
    /\ mailbox # <<>>
    /\ mailbox' = Tail(mailbox)
    /\ UNCHANGED <<session, view, handle, sub>>

SubStep(p) == SubSleep(p) \/ SubRead(p) \/ SubBackoff(p) \/ SubPost(p)

NextPoll ==
    \/ \E p \in Sessions, id \in SessionIds : Iterm(p, id)
    \/ \E p \in Sessions : ChildWrites(p, <<Byte.X>>)
    \/ \E p \in Sessions : ChildExits(p)
    \/ \E p \in Sessions : SubSleep(p)
    \/ \E p \in Sessions : SubRead(p)
    \/ \E p \in Sessions : SubBackoff(p)
    \/ \E p \in Sessions : SubPost(p)
    \/ \E p \in Sessions : Keystroke(p, Byte.X)
    \/ Deliver

\* The scheduler runs every subscription that can take a step, and the
\* application takes the messages it is sent.
SpecPoll ==
    /\ Init
    /\ [][NextPoll]_vars
    /\ \A p \in Sessions : WF_vars(SubStep(p))
    /\ WF_vars(Deliver)

(***************************************************************************)
(* Properties.                                                             *)
(***************************************************************************)
\* The steps of one call.
IsCall(name) == lastOp'.op = name /\ status = "running"

\* clamp(off + delta, 0, hi) for 0 <= off <= hi, as a mathematical sum: no
\* intermediate value is larger than its arguments.
ClampedSum(off, delta, hi) ==
    IF delta >= hi - off THEN hi
    ELSE IF delta <= 0 - off THEN 0
    ELSE off + delta

\* C1: in every reachable state the display offset lies between 0 and the
\* length of the scrollback.
C1_OffsetWithinScrollback ==
    0 <= term.display_offset /\ term.display_offset <= HistorySize(term)

\* C1 witness: output has arrived while the view was scrolled all the way
\* back, and the view is still at the top of a non-empty scrollback.
C1_Witness ==
    /\ lastOp.op = "update"
    /\ term.display_offset > 0
    /\ term.display_offset = HistorySize(term)

\* C2 as claimed: every scroll(delta) that is called returns, with the
\* display offset at clamp(old offset + delta, 0, len(scrollback)).
C2_ScrollClamps ==
    [][IsCall("scroll") =>
          /\ status' = "running"
          /\ term'.display_offset =
                ClampedSum(term.display_offset, lastOp'.delta, HistorySize(term))]_vars

\* C3: every byte handed to the PTY write handle was handed over with the
\* display offset at 0, and the display offset is 0 after write_to_pty.
C3_BottomBeforeSend ==
    /\ \A i \in 1..Len(pty.sent) : pty.sent[i].display_offset = 0
    /\ lastOp.op = "write_to_pty" => term.display_offset = 0

\* C3 witness: a character was typed and sent while the view was scrolled back.
C3_Witness ==
    /\ lastOp.op = "write_to_pty"
    /\ lastOp.from_offset > 0
    /\ Len(pty.sent) > 0
    /\ status = "running"

\* C4: from every reachable session, for every byte sequence d and every
\* position k in it, update(d[1..k]) followed by update(d[k+1..]) leaves the
\* same screen buffer and parser state, and returns the same snapshot, as
\* update(d).
C4_SplitUpdate ==
    LET s == [term |-> term, parser |-> parser]
    IN  \A d \in Chunks : \A k \in 0..Len(d) :
            LET two == UpdateFn(UpdateFn(s, SubSeq(d, 1, k)), SubSeq(d, k + 1, Len(d)))
                one == UpdateFn(s, d)
            IN  two = one /\ Cells(two.term) = Cells(one.term)

\* C4 witness: an update call has returned in the middle of an escape
\* sequence, with characters already on the screen.
C4_Witness ==
    /\ lastOp.op = "update"
    /\ parser.state = "CsiEntry"
    /\ \E k \in 1..Len(ret) : ret[k].content # Byte.SPACE

\* C6: a resize with rows = 0 or cols = 0 changes nothing in the session,
\* does not reach the pseudo-terminal, does not fail, and returns the
\* snapshot cells() would have returned before it.
C6_ZeroResizeNoOp ==
    [][(IsCall("resize") /\ (lastOp'.rows = 0 \/ lastOp'.cols = 0)) =>
          /\ term' = term
          /\ parser' = parser
          /\ pty' = pty
          /\ status' = "running"
          /\ ret' = Cells(term)]_vars

\* C6 witness: a resize to zero rows or columns was made on a session with
\* scrollback and a scrolled-back view.
C6_Witness ==
    /\ lastOp.op = "resize"
    /\ (lastOp.rows = 0 \/ lastOp.cols = 0)
    /\ term.display_offset > 0

\* The screen buffers an observer may see while call f is under way: the
\* one the call found and the one it leaves.
Boundaries(f) == IF f.op = "none" THEN {term} ELSE {f.before, f.after}

\* C5: every extraction, whether made by cells() on its own or by the
\* cells() that ends an update or a resize, is taken of the screen buffer
\* as it was before or as it is after each update and resize call: never of
\* a buffer to which part of the bytes or part of a resize has been applied;
\* the extraction that ends a call sees all of that call.
C5_ExtractionSeesWholeCalls ==
    [][(Extract \/ UpdateEnd \/ ResizeEnd) =>
          /\ ret' = Cells(term)
          /\ term \in Boundaries(inflight)
          /\ (UpdateEnd \/ ResizeEnd) => term = inflight.after]_vars

\* C5 witness: cells() has been called, and now a call of update is under
\* way with bytes still to apply: the screen buffer and its extraction are
\* at neither end of the call, and the subscription has already read the
\* next bytes.
C5_Witness ==
    /\ lastOp.op = "cells"
    /\ inflight.op = "update"
    /\ inflight.rest # <<>>
    /\ term \notin {inflight.before, inflight.after}
    /\ Cells(term) \notin {Cells(inflight.before), Cells(inflight.after)}
    /\ inbox # <<>>

\* The code knows no largest size.  The claim is stated for the largest
\* maximum that leaves a size of the model above it.
SaneMaximum == MaxDim - 1

\* C7 as claimed: a resize whose rows or cols exceed the maximum does not
\* reach the pseudo-terminal and leaves the grid's size as it was.
C7_OversizeResizeNoOp ==
    [][(IsCall("resize") /\ (lastOp'.rows > SaneMaximum \/ lastOp'.cols > SaneMaximum)) =>
          /\ pty' = pty
          /\ term'.rows = term.rows
          /\ term'.cols = term.cols]_vars

\* C8: in every reachable state the size last reported to the
\* pseudo-terminal is the size of the grid.
C8_PtySizeIsGridSize ==
    pty.rows = term.rows /\ pty.cols = term.cols

\* C8 witness: an accepted resize to a size that is not square, made after
\* output had arrived.
C8_Witness ==
    /\ lastOp.op = "resize"
    /\ ResizeAccepted(lastOp.rows, lastOp.cols)
    /\ lastOp.rows # lastOp.cols
    /\ term.rows = lastOp.rows
    /\ fed > 0

\* C9: cells() leaves the grid, the cursor, the scrollback, the display
\* offset, the parser and the pseudo-terminal as they were and returns the
\* extraction of that state; a second call right after the first returns
\* the same sequence.
C9_CellsReadOnly ==
    [][IsCall("cells") =>
          /\ term' = term
          /\ parser' = parser
          /\ pty' = pty
          /\ ret' = Cells(term)
          /\ lastOp.op = "cells" => ret' = ret]_vars

\* C9 witness: cells() was called on a scrolled-back view with characters in it.
C9_Witness ==
    /\ lastOp.op = "cells"
    /\ term.display_offset > 0
    /\ \E k \in 1..Len(ret) : ret[k].content # Byte.SPACE

\* C10: every cell of every snapshot carries the stored background as fg and
\* the stored foreground as bg when the stored cell is INVERSE, and the
\* stored colours as they are when it is not; cells() leaves the stored
\* cells as they were.
C10_InverseSwap ==
    [][/\ \A k \in 1..Len(ret') :
             LET stored == StoredCell(term', ret'[k].line, ret'[k].column)
             IN  <<ret'[k].fg, ret'[k].bg>> =
                    IF stored.inverse THEN <<stored.bg, stored.fg>>
                    ELSE <<stored.fg, stored.bg>>
       /\ IsCall("cells") => term'.buf = term.buf]_vars

\* C10 witness: a snapshot holds an INVERSE cell and a cell that is not, and
\* the stored colours of the INVERSE cell are still the default ones.
C10_Witness ==
    /\ \E k \in 1..Len(ret) :
          /\ StoredCell(term, ret[k].line, ret[k].column).inverse
          /\ StoredCell(term, ret[k].line, ret[k].column).fg = "Foreground"
          /\ ret[k].fg = "Background"
          /\ ret[k].bg = "Foreground"
    /\ \E k \in 1..Len(ret) :
          /\ ~StoredCell(term, ret[k].line, ret[k].column).inverse
          /\ ret[k].fg = "Foreground"

\* C11: every snapshot holds one RenderableCell for each position of the
\* rows x cols window and no other, each with the content of the stored
\* cell it stands for and with the session's display offset, and with
\* 0 <= column < cols and 0 <= line + display_offset < rows.
C11_SnapshotCoversWindow ==
    ret # <<>> =>
       /\ Len(ret) = term.rows * term.cols
       /\ \A row \in 0..(term.rows - 1), col \in 0..(term.cols - 1) :
             Cardinality({k \in 1..Len(ret) :
                             /\ ret[k].line + ret[k].display_offset = row
                             /\ ret[k].column = col}) = 1
       /\ \A k \in 1..Len(ret) :
             /\ ret[k].display_offset = term.display_offset
             /\ 0 <= ret[k].column /\ ret[k].column < term.cols
             /\ 0 <= ret[k].line + ret[k].display_offset
             /\ ret[k].line + ret[k].display_offset < term.rows
             /\ ret[k].content = StoredCell(term, ret[k].line, ret[k].column).c

\* C11 witness: a snapshot of more than one row taken with the view
\* scrolled back, with a blank cell and a cell that is not blank in it.
C11_Witness ==
    /\ ret # <<>>
    /\ term.rows > 1
    /\ term.display_offset > 0
    /\ \E k \in 1..Len(ret) : ret[k].content = Byte.SPACE
    /\ \E k \in 1..Len(ret) : ret[k].content # Byte.SPACE /\ ret[k].line < 0

\* C12 as claimed: what a write_to_pty(c) that returned has handed to the
\* write handle is c itself, neither cut nor altered.
C12_WrittenVerbatim ==
    (lastOp.op = "write_to_pty" /\ status = "running") =>
       pty.sent[Len(pty.sent)].byte = lastOp.c

\* C13 as claimed: a write_to_pty whose write handle rejects the data ends
\* with the session closed and the program running, not with a panic.
C13_WriteFailureCloses ==
    lastOp.op = "write_to_pty" => status \in {"running", "closed"}

Printable == {Byte.SEVEN, Byte.M, Byte.X}
PrintableTexts(n) == UNION {[1..k -> Printable] : k \in 0..n}

\* The snapshot of t shows text from the top left corner, left to right and
\* top to bottom, in default colours, and blank cells after it.
ShowsText(t, text) ==
    Cells(t) =
       [k \in 1..(t.rows * t.cols) |->
          [column |-> (k - 1) % t.cols, line |-> (k - 1) \div t.cols,
           content |-> IF k <= Len(text) THEN text[k] ELSE Byte.SPACE,
           display_offset |-> 0, fg |-> "Foreground", bg |-> "Background"]]

\* C16: on a freshly constructed rows x cols session, update with n <=
\* rows * cols printable characters gives a snapshot with the k-th
\* character at row k div cols, column k mod cols, in default colours, and
\* every other cell blank; "Hello" on a fresh 24 x 80 session is at row 0,
\* columns 0..4.
C16_PrintableLayout ==
    lastOp.op = "new" =>
       /\ \A text \in PrintableTexts(term.rows * term.cols) :
             ShowsText(UpdateFn([term |-> term, parser |-> parser], text).term, text)
       /\ ShowsText(UpdateFn([term |-> PtyNew(24, 80).term, parser |-> PtyNew(24, 80).parser],
                             <<72, 101, 108, 108, 111>>).term,
                    <<72, 101, 108, 108, 111>>)

\* C16 witness: update calls have filled the first row of a 2 x 2 grid and
\* the first cell of the second, and the snapshot shows them there.
C16_Witness ==
    /\ lastOp.op = "update"
    /\ fed = 2
    /\ term.rows = 2 /\ term.cols = 2
    /\ ShowsText(term, <<Byte.SEVEN, Byte.M, Byte.SEVEN>>)
    /\ ret = Cells(term)

\* C17: a scroll(delta) call changes nothing but the display offset: the
\* cells of the grid and of the scrollback, the grid's size, the cursor,
\* the parser state and the bytes sent to the PTY are as they were.
C17_ScrollChangesOnlyOffset ==
    [][IsCall("scroll") =>
          /\ [term' EXCEPT !.display_offset = term.display_offset] = term
          /\ parser' = parser
          /\ pty' = pty]_vars

\* C17 witness: a scroll has moved the view back over a scrollback line
\* with text in it, while the cursor waits to wrap, an escape sequence is
\* open and a byte has been sent to the PTY.
C17_Witness ==
    /\ lastOp.op = "scroll"
    /\ lastOp.delta > 0
    /\ status = "running"
    /\ term.display_offset > 0
    /\ term.cursor.input_needs_wrap
    /\ parser.state # "Ground"
    /\ Len(pty.sent) > 0
    /\ \E k \in 1..Len(ret) : ret[k].line < 0 /\ ret[k].content # Byte.SPACE

\* C18 as claimed: write_to_pty modifies no screen buffer state that update
\* reads or modifies: grid cells, cursor, scrollback and display offset are
\* after the call what they were before it.
C18_WriteLeavesScreenBuffer ==
    [][IsCall("write_to_pty") => term' = term]_vars

\* C18, amended: of the screen buffer write_to_pty changes the display
\* offset only, and sets it to 0; grid cells, cursor and scrollback stay as
\* they were.  From every reachable state a write_to_pty(c) and an
\* update(d) made in either order end in the same screen buffer, parser
\* state and bytes sent.
C18_WriteChangesOnlyOffset ==
    \A c \in InputChars :
       LET w == WriteToPtyFn([term |-> term, pty |-> pty], c)
       IN  /\ w.term = [term EXCEPT !.display_offset = 0]
           /\ \A d \in Chunks :
                 LET u  == UpdateFn([term |-> term, parser |-> parser], d)
                     uw == WriteToPtyFn([term |-> u.term, pty |-> pty], c)
                     wu == UpdateFn([term |-> w.term, parser |-> parser], d)
                 IN  /\ uw.term = wu.term
                     /\ uw.pty = w.pty
                     /\ u.parser = wu.parser

\* C18 witness: a character was typed and sent while the view was scrolled
\* back over scrollback that updates had filled, in the middle of an escape
\* sequence.
C18_Witness ==
    /\ lastOp.op = "write_to_pty"
    /\ status = "running"
    /\ lastOp.from_offset > 0
    /\ term.display_offset = 0
    /\ fed > 0
    /\ parser.state # "Ground"
    /\ \E i \in 1..HistorySize(term) : \E j \in 1..term.cols : term.buf[i][j].c # Byte.SPACE

\* C14 as claimed: once the read handle of a session is at end-of-stream,
\* its polling loop eventually ends.
C14_EofEndsPolling ==
    \A p \in Sessions : (handle[p].state = "eof") ~> (sub[p].pc = "done")

\* C19: whenever a subscription is about to read its PTY handle it has
\* slept since its previous attempt (and before its first one), whether
\* that attempt found data or none.
C19_SleepBeforeEveryRead ==
    \A p \in Sessions : sub[p].pc = "read" => sub[p].naps >= 1

\* C19 witness: a subscription whose last attempt found no data has yielded
\* Message::Ignored, which still waits for the application, and is about to
\* read again after its two sleeps.
C19_Witness ==
    \E p \in Sessions :
       /\ sub[p].pc = "read"
       /\ sub[p].naps = 2
       /\ mailbox # <<>>
       /\ mailbox[1].kind = "Ignored"
       /\ mailbox[1].from = p

\* C20: the id of a session never changes once iterm has made it, and every
\* message on its way to the application carries the id of the session it
\* comes from, so it has the id of no session that was made with another id.
C20_MessagesCarrySessionId ==
    [][/\ \A p \in Sessions : view[p].live => view'[p] = view[p]
       /\ \A i \in 1..Len(mailbox') :
             /\ view'[mailbox'[i].from].live
             /\ mailbox'[i].id = view'[mailbox'[i].from].id
             /\ \A q \in Sessions :
                   (view'[q].live /\ view'[q].id # view'[mailbox'[i].from].id)
                      => mailbox'[i].id # view'[q].id]_vars

\* C20 witness: two sessions run, the second with the smaller id; a
\* keystroke of the first waits for the application while the subscription
\* of the second is about to yield bytes it has read.
C20_Witness ==
    /\ view[1].live /\ view[2].live
    /\ view[2].id < view[1].id
    /\ mailbox # <<>>
    /\ mailbox[1].kind = "CharacterReceived"
    /\ mailbox[1].from = 1
    /\ sub[2].pc = "post"
    /\ sub[2].msg.kind = "DataUpdated"
    /\ sub[2].msg.data # <<>>

=============================================================================
